---- MODULE Spec2Model ----
(***************************************************************************)
(* Model of the tool-output pipeline of the chat demo:                     *)
(*   - renderToolPart and the renderer table (toolRenderers.tsx),          *)
(*   - the renderers WeatherResult, SQLQueryResult, ChartResult,           *)
(*   - the rendering of a message list (Chat.tsx, renderMessage),          *)
(*   - the type generation run (scripts/generate-types.js).                *)
(*                                                                         *)
(* JavaScript strings that the code slices or compares by prefix are       *)
(* sequences of one-character strings.  A JavaScript value is a record     *)
(* [t, ref]: t is the kind of value and ref identifies the value; for an   *)
(* object, ref is its identity (a key of Heap).                            *)
(***************************************************************************)
EXTENDS Integers, Sequences, FiniteSets, TLC

VARIABLES
    \* one call of renderToolPart, then React rendering what it returned
    part,        \* the argument of renderToolPart
    callResult,  \* what the call did
    log,         \* console.warn lines, in order
    view,        \* what React rendered for the returned element
    table,       \* the header count, message and cells of an SQL result view
    pcPart,      \* "idle", "returned", "threw", "rendered", "crashed"
    \* rendering the message list of Chat
    messages,    \* sequence of messages, each a sequence of parts
    items,       \* what the parts.map callbacks returned, per message
    dom,         \* what is on screen, per message
    chatLog,     \* console.warn lines of the pass
    pcChat,      \* "render", "reconcile", "committed", "crashed"
    \* the form of Chat
    input,       \* the input state of Chat, a sequence of characters
    status,      \* the status of useChat
    sendCalls,   \* how often sendMessage was called
    lastSent,    \* the text of the last sendMessage call
    event,       \* the last event: "none", "change", "submit", "status"
    \* one run of generate-types.js
    response,        \* what the schema request yields
    tools,           \* the entries of data.tools, in iteration order
    dirExists,       \* whether the directory of OUTPUT_FILE exists
    canMkdir,        \* whether mkdirSync can create it
    canWrite,        \* whether writeFileSync can write OUTPUT_FILE
    file,            \* the content of OUTPUT_FILE
    file0,           \* its content before the run
    dir0,            \* dirExists before the run
    typeDefinitions, \* the declarations accumulated in typeDefinitions
    toolOutputTypes, \* the object toolOutputTypes, in insertion order
    ti,              \* index of the tool the loop is at
    compiled,        \* names of the tools whose compile returned
    written,         \* whether writeFileSync returned
    failure,         \* what threw: "none", "fetch", "status", "json", ...
    exitCode,        \* -1 while running, else the exit status
    pcGen,           \* "fetch", "json", "loop", "done", "exited"
    genLog,          \* the console lines of the run, in order
    run,             \* 1 in the first run, 2 in a run that repeats it
    firstArtifact,   \* the content of OUTPUT_FILE after the first run
    \* a second call of renderToolPart, and the helpers of tool-utils.ts
    callResult2,     \* what a second call of renderToolPart on part did
    utilName,        \* the toolName given to getToolOutput and isToolPart
    got,             \* what getToolOutput(part, utilName) returned
    narrowed         \* what isToolPart(part, utilName) returned

partVars == <<part, callResult, log, view, table, pcPart>>
formVars == <<input, status, sendCalls, lastSent, event>>
chatVars == <<messages, items, dom, chatLog, pcChat, formVars>>
genVars  == <<response, tools, dirExists, canMkdir, canWrite, file, file0,
              dir0, typeDefinitions, toolOutputTypes, ti, compiled, written,
              failure, exitCode, pcGen, genLog, run, firstArtifact>>
rerunVars == <<run, firstArtifact>>
utilVars == <<callResult2, utilName, got, narrowed>>
vars == <<partVars, chatVars, genVars, utilVars>>

----------------------------------------------------------------------------
\* Bounds of the model

MaxParts == 2
MaxMessages == 2
MaxTools == 2
MaxInput == 2

----------------------------------------------------------------------------
\* Strings

TOOL_PREFIX == <<"t","o","o","l","-">>
GET_WEATHER == <<"g","e","t","_","w","e","a","t","h","e","r">>
EXECUTE_SQL == <<"e","x","e","c","u","t","e","_","s","q","l">>
RENDER_CHART == <<"r","e","n","d","e","r","_","c","h","a","r","t">>
UNKNOWN_TOOL == <<"u","n","k","n","o","w","n","_","t","o","o","l">>
TO_STRING == <<"t","o","S","t","r","i","n","g">>
CONSTRUCTOR == <<"c","o","n","s","t","r","u","c","t","o","r">>
HAS_OWN_PROPERTY == <<"h","a","s","O","w","n","P","r","o","p","e","r","t","y">>
PROTO == <<"_","_","p","r","o","t","o","_","_">>
TEXT == <<"t","e","x","t">>

\* String.prototype.startsWith
StartsWith(s, p) == Len(s) >= Len(p) /\ SubSeq(s, 1, Len(p)) = p

\* String.prototype.slice(n): the string without its first n characters
Slice(s, n) == SubSeq(s, n + 1, Len(s))

----------------------------------------------------------------------------
\* JavaScript values

Undefined == [t |-> "undefined", ref |-> 0]
Null == [t |-> "null", ref |-> 0]
StrVal == [t |-> "string", ref |-> 1]
NumVal == [t |-> "number", ref |-> 18]
BoolVal == [t |-> "boolean", ref |-> 1]
\* The falsy primitives '', 0 and false
EmptyStr == [t |-> "string", ref |-> 0]
Zero == [t |-> "number", ref |-> 0]
False == [t |-> "boolean", ref |-> 0]
Obj(i) == [t |-> "object", ref |-> i]
Arr(i) == [t |-> "array", ref |-> i]

\* Whether a value counts as true in a condition
Truthy(v) ==
    \/ v.t \in {"object", "array"}
    \/ v.t \in {"string", "number", "boolean"} /\ v.ref # 0

\* The typeof operator: null and arrays are 'object'
TypeOf(v) == IF v.t \in {"null", "object", "array"} THEN "object" ELSE v.t

\* The fields the renderers read of an object, with what an absent field
\* reads as: success "undefined", row_count -1, has* FALSE.
EmptyObject ==
    [success |-> "undefined", row_count |-> -1,
     hasColumnNames |-> FALSE, column_names |-> <<>>,
     hasRows |-> FALSE, rows |-> <<>>,
     hasConfig |-> FALSE, chart_type |-> "undefined",
     hasYKeys |-> FALSE, y_keys |-> <<>>]

SqlOk == [EmptyObject EXCEPT !.success = "true", !.row_count = 2,
            !.hasColumnNames = TRUE, !.column_names = <<"a", "b">>,
            !.hasRows = TRUE, !.rows = <<1, 2>>]
ChartOk == [EmptyObject EXCEPT !.success = "true",
            !.hasRows = TRUE, !.rows = <<1, 2>>,
            !.hasConfig = TRUE, !.chart_type = "Line",
            !.hasYKeys = TRUE, !.y_keys = <<"y">>]

\* The objects of the model, by identity
Heap ==
    <<
      EmptyObject,                                           \* 1  {}
      EmptyObject,                                           \* 2  { city: 'Tokyo', temperature: 18 }
      [EmptyObject EXCEPT !.success = "false"],              \* 3  a failed query or chart
      SqlOk,                                                 \* 4  a query with two rows
      [SqlOk EXCEPT !.row_count = 0, !.rows = <<>>],         \* 5  a query with no rows
      [SqlOk EXCEPT !.hasColumnNames = FALSE, !.column_names = <<>>],  \* 6  success, no column_names
      [SqlOk EXCEPT !.hasRows = FALSE, !.rows = <<>>],       \* 7  success, no rows
      [SqlOk EXCEPT !.row_count = 0, !.hasColumnNames = FALSE,
                    !.column_names = <<>>, !.rows = <<>>],   \* 8  success, row_count 0, no column_names
      ChartOk,                                               \* 9  a line chart
      [ChartOk EXCEPT !.rows = <<>>],                        \* 10 a chart without data
      [ChartOk EXCEPT !.hasConfig = FALSE, !.chart_type = "undefined",
                      !.hasYKeys = FALSE, !.y_keys = <<>>],  \* 11 success, no config
      [ChartOk EXCEPT !.hasYKeys = FALSE, !.y_keys = <<>>],  \* 12 success, config without y_keys
      [ChartOk EXCEPT !.chart_type = "pie", !.hasYKeys = FALSE,
                      !.y_keys = <<>>],                      \* 13 a pie chart without y_keys
      [ChartOk EXCEPT !.chart_type = "hexbin"],              \* 14 a chart type without a case
      [ChartOk EXCEPT !.chart_type = "hexbin", !.hasYKeys = FALSE,
                      !.y_keys = <<>>],                      \* 15 the same without y_keys
      [ChartOk EXCEPT !.chart_type = "undefined"],           \* 16 config without chart_type
      [SqlOk EXCEPT !.success = "false"],                    \* 17 a failed query with all the fields
      [ChartOk EXCEPT !.success = "undefined"],              \* 18 a chart without success
      [SqlOk EXCEPT !.row_count = 3],                        \* 19 row_count above the rows sent
      [SqlOk EXCEPT !.row_count = 0],                        \* 20 row_count 0 with two rows
      [SqlOk EXCEPT !.rows = <<>>]                           \* 21 row_count 2 without a row
    >>

Objects == {Obj(i) : i \in DOMAIN Heap}
Primitives ==
    {Undefined, Null, StrVal, NumVal, BoolVal, EmptyStr, Zero, False}
Outputs == Primitives \cup Objects \cup {Arr(0)}

----------------------------------------------------------------------------
\* Message parts

\* The value of part.type: undefined, a number, or a string s
NoType == [t |-> "undefined", s |-> <<>>]
NumType == [t |-> "number", s |-> <<>>]
StrType(s) == [t |-> "string", s |-> s]

ToolNames ==
    {GET_WEATHER, EXECUTE_SQL, RENDER_CHART, UNKNOWN_TOOL, <<>>,
     TO_STRING, CONSTRUCTOR, HAS_OWN_PROPERTY, PROTO,
     SubSeq(GET_WEATHER, 1, 10)}

\* 'tool-<name>' for the names above
ToolTypeStrings == {TOOL_PREFIX \o n : n \in ToolNames}

\* 'text', 'tool', 'get_weather', 'Tool-get_weather', 'xtool-get_weather'
OtherTypeStrings ==
    {TEXT, SubSeq(TOOL_PREFIX, 1, 4), GET_WEATHER,
     <<"T","o","o","l","-">> \o GET_WEATHER,
     <<"x">> \o TOOL_PREFIX \o GET_WEATHER}

TypeStrings == ToolTypeStrings \cup OtherTypeStrings

TypeVals == {NoType, NumType} \cup {StrType(s) : s \in TypeStrings}

\* A part is the value itself (t) with what reading .type and .output of it
\* yields; both read as undefined on a primitive.
ObjectParts == [t : {"object"}, type : TypeVals, output : Outputs]
PrimitiveParts ==
    [t : {"undefined", "null", "string", "number", "boolean"},
     type : {NoType}, output : {Undefined}]
Parts == ObjectParts \cup PrimitiveParts

----------------------------------------------------------------------------
\* toolRenderers.tsx

\* The renderer table: tool name -> the component its renderer instantiates
toolRenderers ==
    (GET_WEATHER :> "WeatherResult")
    @@ (EXECUTE_SQL :> "SQLQueryResult")
    @@ (RENDER_CHART :> "ChartResult")

\* toolRenderers is an object literal, so its prototype is Object.prototype:
\* the `in` operator and a property read also find what it inherits.
ObjectPrototype ==
    (TO_STRING :> "function")
    @@ (CONSTRUCTOR :> "function")
    @@ (HAS_OWN_PROPERTY :> "function")
    @@ (PROTO :> "object")

\* hasToolRenderer: toolName in toolRenderers
hasToolRenderer(toolName) ==
    toolName \in DOMAIN toolRenderers \/ toolName \in DOMAIN ObjectPrototype

NoChild == [kind |-> "none", comp |-> "none", data |-> Undefined]

\* callToolRenderer: toolRenderers[toolName](output).
\* called: the function that was called; child: what it returned.
callToolRenderer(toolName, output) ==
    IF toolName \in DOMAIN toolRenderers
    THEN [throws |-> FALSE, called |-> toolRenderers[toolName],
          child |-> [kind |-> "component", comp |-> toolRenderers[toolName],
                     data |-> output]]
    ELSE IF toolName = TO_STRING    \* returns '[object Object]'
    THEN [throws |-> FALSE, called |-> "Object.prototype.toString",
          child |-> [kind |-> "string", comp |-> "none", data |-> Undefined]]
    ELSE IF toolName = CONSTRUCTOR  \* Object(output) is output
    THEN [throws |-> FALSE, called |-> "Object",
          child |-> [kind |-> "object", comp |-> "none", data |-> output]]
    ELSE IF toolName = HAS_OWN_PROPERTY  \* returns false
    THEN [throws |-> FALSE, called |-> "Object.prototype.hasOwnProperty",
          child |-> [kind |-> "false", comp |-> "none", data |-> Undefined]]
    ELSE \* not a function: TypeError
         [throws |-> TRUE, called |-> "none", child |-> NoChild]

\* typeof part !== 'object' || part === null, negated
IsObjectPart(p) == p.t = "object"

\* Mutant: the prefix is not checked
IsToolType_NoPrefixCheck(type) == type.t = "string"

\* typeof type !== 'string' || !type.startsWith('tool-'), negated
IsToolType(type) == type.t = "string" /\ StartsWith(type.s, TOOL_PREFIX)

\* Mutant: one character too few is removed
StripPrefix_Slice4(s) == Slice(s, 4)

\* type.slice(5)
StripPrefix(s) == Slice(s, 5)

\* Mutant: null is not excluded
IsValidOutput_TypeofOnly(output) == TypeOf(output) = "object"

\* typeof output !== 'object' || output === null, negated
IsValidOutput(output) == TypeOf(output) = "object" /\ output # Null

NullResult(warn, toolName) ==
    [ret |-> "null", warn |-> warn, toolName |-> toolName, called |-> "none",
     child |-> NoChild, toolOutput |-> Undefined]

\* renderToolPart(part).  ret: "null", "element" (a ToolResultWrapper with
\* props toolName and toolOutput around child) or "throw".
renderToolPart(p) ==
    IF ~IsObjectPart(p) THEN NullResult("none", <<>>)
    ELSE IF ~IsToolType(p.type) THEN NullResult("none", <<>>)
    ELSE LET toolName == StripPrefix(p.type.s)
             output == p.output
         IN IF ~hasToolRenderer(toolName)
            THEN NullResult("NoRenderer", toolName)
            ELSE IF ~IsValidOutput(output)
            THEN NullResult("InvalidOutput", toolName)
            ELSE LET rendered == callToolRenderer(toolName, output)
                 IN IF rendered.throws
                    THEN [ret |-> "throw", warn |-> "none",
                          toolName |-> toolName, called |-> rendered.called,
                          child |-> NoChild, toolOutput |-> Undefined]
                    ELSE [ret |-> "element", warn |-> "none",
                          toolName |-> toolName, called |-> rendered.called,
                          child |-> rendered.child, toolOutput |-> output]

\* Mutant: a tool is warned about once only
Warnings_Once(r) ==
    IF r.warn = "none" \/ log # <<>> THEN <<>>
    ELSE <<[msg |-> r.warn, toolName |-> r.toolName]>>

\* The console.warn lines of one call
Warnings(r) ==
    IF r.warn = "none" THEN <<>>
    ELSE <<[msg |-> r.warn, toolName |-> r.toolName]>>

----------------------------------------------------------------------------
\* The renderers.  A view is what the component function does when React
\* calls it: throws, or returns the panel named by shown.

View(shown) == [throws |-> FALSE, shown |-> shown]
Throws == [throws |-> TRUE, shown |-> "none"]
NoView == [throws |-> FALSE, shown |-> "none"]

\* The fields of a value that a renderer reads; an array has none of them
Fields(v) == IF v.t = "object" THEN Heap[v.ref] ELSE EmptyObject

\* !data.success
NotSuccess(d) == d.success # "true"

\* WeatherResult.tsx: reads city, condition, temperature, unit as text
WeatherResult(data) == View("weather")

\* Mutant: the table is built before success is looked at
SQLQueryResult_TableFirst(data) ==
    LET d == Fields(data)
    IN IF d.row_count # 0 /\ ~d.hasColumnNames THEN Throws
       ELSE IF d.row_count # 0 /\ ~d.hasRows THEN Throws
       ELSE IF NotSuccess(d) THEN View("sql-error")
       ELSE IF d.row_count = 0 THEN View("sql-no-results")
       ELSE View("sql-table")

\* SQLQueryResult.tsx
SQLQueryResult(data) ==
    LET d == Fields(data)
    IN IF NotSuccess(d) THEN View("sql-error")
       ELSE IF d.row_count = 0 THEN View("sql-no-results")
       ELSE IF ~d.hasColumnNames THEN Throws  \* data.column_names.map
       ELSE IF ~d.hasRows THEN Throws         \* data.rows.map
       ELSE View("sql-table")

\* row[col] for the rows of the model: row 1 is { a: 18, b: null } and
\* row 2 is { a: 'text' }; any other property is undefined
RowValue(row, col) ==
    IF row = 1 /\ col = "a" THEN NumVal
    ELSE IF row = 1 /\ col = "b" THEN Null
    ELSE IF row = 2 /\ col = "a" THEN StrVal
    ELSE Undefined

\* The em dash (U+2014) that stands for no value
EM_DASH == "em dash"

\* formatValue(value)
formatValue(value) ==
    IF value = Null \/ value = Undefined THEN EM_DASH
    ELSE IF value.t = "boolean"
    THEN (IF value.ref # 0 THEN "true" ELSE "false")
    ELSE IF value.t = "number"
    THEN (IF value.ref = 0 THEN "0" ELSE "18")   \* Intl.NumberFormat
    ELSE IF value.t = "string"
    THEN (IF value.ref = 0 THEN "" ELSE "text")  \* String(value)
    ELSE "[object Object]"

\* No SQL result view on screen
NoTable == [header |-> -1, noResults |-> FALSE, body |-> <<>>]

\* The success view of SQLQueryResult: the count in the header, whether
\* 'No results returned' is shown, and the cells of the body rows
SQLQueryResultTable(data) ==
    LET d == Fields(data)
    IN [header |-> d.row_count,
        noResults |-> d.row_count = 0,
        body |-> IF d.row_count = 0 THEN <<>>
                 ELSE [i \in DOMAIN d.rows |->
                          [j \in DOMAIN d.column_names |->
                              formatValue(RowValue(d.rows[i],
                                                   d.column_names[j]))]]]

\* String.prototype.toLowerCase on the chart types of the model
ToLowerCase(s) == IF s = "Line" THEN "line" ELSE s

\* The cases of the switch in renderChart; each of them reads yKeys
ChartCases ==
    {"line", "bar", "area", "scatter", "composed", "pie", "radar",
     "radial_bar", "funnel", "treemap", "sankey"}

\* renderChart(config.chart_type, rows, config.x_key, config.y_keys),
\* called with at least one row
renderChart(d) ==
    IF d.chart_type = "undefined" THEN Throws   \* type.toLowerCase()
    ELSE IF ToLowerCase(d.chart_type) \notin ChartCases
    THEN View("chart-unsupported")
    ELSE IF ~d.hasYKeys THEN Throws             \* yKeys.map, yKeys[0]
    ELSE View("chart")

\* ChartResult.tsx
ChartResult(data) ==
    LET d == Fields(data)
    IN IF NotSuccess(d) THEN View("chart-error")
       ELSE IF ~d.hasRows \/ Len(d.rows) = 0 THEN View("chart-empty")
       ELSE IF ~d.hasConfig THEN Throws          \* config.title
       ELSE renderChart(d)

\* React rendering the child of a ToolResultWrapper
RenderChild(child) ==
    IF child.kind = "component"
    THEN IF child.comp = "WeatherResult" THEN WeatherResult(child.data)
         ELSE IF child.comp = "SQLQueryResult" THEN SQLQueryResult(child.data)
         ELSE ChartResult(child.data)
    ELSE IF child.kind = "string" THEN View("text")
    ELSE IF child.kind = "object" THEN Throws  \* an object is no React child
    ELSE View("nothing")

----------------------------------------------------------------------------
\* One call of renderToolPart on any value, and React rendering the result

NoResult ==
    [ret |-> "none", warn |-> "none", toolName |-> <<>>, called |-> "none",
     child |-> NoChild, toolOutput |-> Undefined]

InitPartVars ==
    /\ callResult = NoResult
    /\ log = <<>>
    /\ view = NoView
    /\ table = NoTable
    /\ pcPart = "idle"

\* renderToolPart(part) is called
CallRenderToolPart ==
    /\ pcPart = "idle"
    /\ LET r == renderToolPart(part)
       IN /\ callResult' = r
          /\ log' = log \o Warnings(r)
          /\ pcPart' = IF r.ret = "throw" THEN "threw" ELSE "returned"
    /\ UNCHANGED <<part, view, table>>
    /\ UNCHANGED <<chatVars, genVars, utilVars>>

\* React renders the element that the call returned
ReactRender ==
    /\ pcPart = "returned"
    /\ callResult.ret = "element"
    /\ LET v == RenderChild(callResult.child)
       IN /\ view' = v
          /\ table' = IF v.shown \in {"sql-table", "sql-no-results"}
                      THEN SQLQueryResultTable(callResult.child.data)
                      ELSE NoTable
          /\ pcPart' = IF v.throws THEN "crashed" ELSE "rendered"
    /\ UNCHANGED <<part, callResult, log>>
    /\ UNCHANGED <<chatVars, genVars, utilVars>>

NextPart == CallRenderToolPart \/ ReactRender

----------------------------------------------------------------------------
\* Chat.tsx: rendering the message list

\* The parts of the conversations of the model
ChatParts ==
    {[t |-> "object", type |-> StrType(TEXT), output |-> Undefined],
     [t |-> "object", type |-> StrType(TOOL_PREFIX \o GET_WEATHER),
      output |-> Obj(2)],
     [t |-> "object", type |-> StrType(TOOL_PREFIX \o EXECUTE_SQL),
      output |-> StrVal],
     [t |-> "object", type |-> StrType(TOOL_PREFIX \o UNKNOWN_TOOL),
      output |-> Obj(1)],
     [t |-> "object", type |-> StrType(TOOL_PREFIX \o EXECUTE_SQL),
      output |-> Obj(6)],
     [t |-> "object", type |-> StrType(TOOL_PREFIX \o PROTO),
      output |-> Obj(1)]}

\* The conversations of exactly m messages with at most n parts in all
RECURSIVE Conversations(_, _)
Conversations(m, n) ==
    IF m = 0 THEN {<<>>}
    ELSE UNION {{<<msg>> \o rest : msg \in [1..k -> ChatParts],
                                  rest \in Conversations(m - 1, n - k)}
                : k \in 0..n}

\* The callback of message.parts.map for one part.
\* item: a text div, a div around the tool element, or null.
RenderPartItem(p) ==
    IF p.type = StrType(TEXT)
    THEN [throws |-> FALSE, warns |-> <<>>,
          item |-> [kind |-> "text", child |-> NoChild]]
    ELSE LET toolOutput == renderToolPart(p)
         IN IF toolOutput.ret = "throw"
            THEN [throws |-> TRUE, warns |-> <<>>,
                  item |-> [kind |-> "null", child |-> NoChild]]
            ELSE IF toolOutput.ret = "element"
            THEN [throws |-> FALSE, warns |-> Warnings(toolOutput),
                  item |-> [kind |-> "tool", child |-> toolOutput.child]]
            ELSE [throws |-> FALSE, warns |-> Warnings(toolOutput),
                  item |-> [kind |-> "null", child |-> NoChild]]

\* renderMessage: message.parts.map from part i on; a throw ends the map
RECURSIVE renderMessage(_, _)
renderMessage(parts, i) ==
    IF i > Len(parts) THEN [throws |-> FALSE, warns |-> <<>>, items |-> <<>>]
    ELSE LET h == RenderPartItem(parts[i])
         IN IF h.throws
            THEN [throws |-> TRUE, warns |-> h.warns, items |-> <<>>]
            ELSE LET rest == renderMessage(parts, i + 1)
                 IN [throws |-> rest.throws, warns |-> h.warns \o rest.warns,
                     items |-> <<h.item>> \o rest.items]

\* messages.map from message m on
RECURSIVE RenderMessages(_, _)
RenderMessages(ms, m) ==
    IF m > Len(ms) THEN [throws |-> FALSE, warns |-> <<>>, items |-> <<>>]
    ELSE LET h == renderMessage(ms[m], 1)
         IN IF h.throws
            THEN [throws |-> TRUE, warns |-> h.warns, items |-> <<>>]
            ELSE LET rest == RenderMessages(ms, m + 1)
                 IN [throws |-> rest.throws, warns |-> h.warns \o rest.warns,
                     items |-> <<h.items>> \o rest.items]

\* What React shows for one item
ItemView(item) ==
    IF item.kind = "text" THEN View("message-text")
    ELSE IF item.kind = "tool" THEN RenderChild(item.child)
    ELSE View("nothing")

\* The form before anything is typed: useState(''), status 'ready'
InitFormVars ==
    /\ input = <<>>
    /\ status = "ready"
    /\ sendCalls = 0
    /\ lastSent = <<>>
    /\ event = "none"

InitChatVars ==
    /\ InitFormVars
    /\ items = <<>>
    /\ dom = <<>>
    /\ chatLog = <<>>
    /\ pcChat = "render"

\* The Chat function runs: messages.map(renderMessage).  A throw leaves
\* nothing on screen, as Chat.tsx has no error boundary.
RenderChat ==
    /\ pcChat = "render"
    /\ LET out == RenderMessages(messages, 1)
       IN /\ chatLog' = chatLog \o out.warns
          /\ items' = out.items
          /\ pcChat' = IF out.throws THEN "crashed" ELSE "reconcile"
    /\ UNCHANGED <<messages, dom, formVars>>
    /\ UNCHANGED <<partVars, genVars, utilVars>>

\* React calls the component functions of the elements; a throw in one of
\* them unmounts the whole tree.
ReactCommit ==
    /\ pcChat = "reconcile"
    /\ LET views == [m \in DOMAIN items |->
                        [i \in DOMAIN items[m] |-> ItemView(items[m][i])]]
           crash == \E m \in DOMAIN views : \E i \in DOMAIN views[m] :
                        views[m][i].throws
       IN /\ dom' = IF crash THEN <<>> ELSE views
          /\ pcChat' = IF crash THEN "crashed" ELSE "committed"
    /\ UNCHANGED <<messages, items, chatLog, formVars>>
    /\ UNCHANGED <<partVars, genVars, utilVars>>

NextChat == RenderChat \/ ReactCommit

----------------------------------------------------------------------------
\* Chat.tsx: the form.  The events are those dispatched on the form and on
\* the input, whether or not the browser holds them back for a control that
\* is disabled; the handlers are what decides.

\* The values e.target.value can have
Inputs == UNION {[1..n -> {" ", "a"}] : n \in 0..MaxInput}

\* String.prototype.trim: without the white space at both ends
Trim(s) ==
    LET black == {i \in DOMAIN s : s[i] # " "}
    IN IF black = {} THEN <<>>
       ELSE SubSeq(s, CHOOSE i \in black : \A j \in black : i <= j,
                      CHOOSE i \in black : \A j \in black : j <= i)

\* The statuses of useChat
Statuses == {"ready", "submitted", "streaming", "error"}

\* onChange={(e) => setInput(e.target.value)}
onChange ==
    /\ \E value \in Inputs : input' = value
    /\ event' = "change"
    /\ UNCHANGED <<status, sendCalls, lastSent>>
    /\ UNCHANGED <<messages, items, dom, chatLog, pcChat>>
    /\ UNCHANGED <<partVars, genVars, utilVars>>

\* Mutant: the input is not looked at
handleSubmit_AnyInput ==
    /\ event' = "submit"
    /\ IF status # "ready"
       THEN UNCHANGED <<input, status, sendCalls, lastSent>>
       ELSE /\ sendCalls < MaxMessages
            /\ sendCalls' = sendCalls + 1
            /\ lastSent' = input
            /\ status' = "submitted"
            /\ input' = <<>>
    /\ UNCHANGED <<messages, items, dom, chatLog, pcChat>>
    /\ UNCHANGED <<partVars, genVars, utilVars>>

\* handleSubmit: sendMessage({ text: input }) puts useChat in 'submitted'
handleSubmit ==
    /\ event' = "submit"
    /\ IF Trim(input) = <<>> \/ status # "ready"
       THEN UNCHANGED <<input, status, sendCalls, lastSent>>
       ELSE /\ sendCalls < MaxMessages
            /\ sendCalls' = sendCalls + 1
            /\ lastSent' = input
            /\ status' = "submitted"
            /\ input' = <<>>
    /\ UNCHANGED <<messages, items, dom, chatLog, pcChat>>
    /\ UNCHANGED <<partVars, genVars, utilVars>>

\* useChat moves on: the response starts, ends, or fails
StatusChange ==
    /\ \/ status = "submitted" /\ status' \in {"streaming", "ready", "error"}
       \/ status = "streaming" /\ status' \in {"ready", "error"}
    /\ event' = "status"
    /\ UNCHANGED <<input, sendCalls, lastSent>>
    /\ UNCHANGED <<messages, items, dom, chatLog, pcChat>>
    /\ UNCHANGED <<partVars, genVars, utilVars>>

NextForm == onChange \/ handleSubmit \/ StatusChange

----------------------------------------------------------------------------
\* scripts/generate-types.js: one generation run

GenToolNames == {"get_weather", "execute_sql", "render_chart"}

\* What a tool's entry of the response holds under the key output:
\*   "absent"       no output key
\*   "object"       the schema of an object with a titled property success
\*   "nested"       the same with a property that refers to another object
\*   "list"         the schema of an array of titled objects
\*   "primitive"    the schema of a string
\*   "uncompilable" a schema that compile rejects
OutputKinds ==
    {"absent", "object", "nested", "list", "primitive", "uncompilable"}

ToolEntries == [name : GenToolNames, output : OutputKinds]

\* The entries of data.tools: at most MaxTools, their names distinct
ToolLists ==
    {ts \in UNION {[1..n -> ToolEntries] : n \in 0..MaxTools} :
        \A i, j \in DOMAIN ts : i # j => ts[i].name # ts[j].name}

\* The outcomes of the request: fetch rejects, a status that is not ok, or
\* ok with a body that is no JSON, null, an object without tools, or tools.
Responses ==
    [fetch : {"error", "not-ok"}, body : {"none"}]
    \cup [fetch : {"ok"}, body : {"invalid-json", "null", "no-tools-key", "tools"}]

NoFile == [exists |-> FALSE, defs |-> <<>>, map |-> <<>>]

\* A declaration of the artifact: `export <decl> <id> ...`.  tool is the
\* tool whose schema it was compiled from; primary tells whether it is the
\* declaration of the schema itself or of something nested in it.
Decl(tool, decl, id, primary) ==
    [tool |-> tool, decl |-> decl, id |-> id, primary |-> primary]

\* The identifier of the declaration of a tool's output schema
PrimaryId(name) ==
    IF name = "execute_sql" THEN "SQLQueryResult"
    ELSE IF name = "render_chart" THEN "ChartResult"
    ELSE "Weather"

\* The artifact that is checked in: execute_sql and render_chart
OldFile ==
    [exists |-> TRUE,
     defs |-> <<Decl("execute_sql", "type", "Success", FALSE),
                Decl("execute_sql", "interface", "SQLQueryResult", TRUE),
                Decl("render_chart", "type", "Success", FALSE),
                Decl("render_chart", "interface", "ChartResult", TRUE),
                Decl("render_chart", "interface", "ChartConfig", FALSE)>>,
     map |-> <<[tool |-> "execute_sql", type |-> "SQLQueryResult"],
               [tool |-> "render_chart", type |-> "ChartResult"]>>]

\* Mutant: the identifiers of nested declarations carry the tool's name
compile_Namespaced(entry) ==
    LET n == entry.name
    IN IF entry.output = "object"
       THEN [throws |-> FALSE,
             tsCode |-> <<Decl(n, "type", n \o "_" \o "Success", FALSE),
                          Decl(n, "interface", n \o "_" \o PrimaryId(n), TRUE)>>]
       ELSE IF entry.output = "nested"
       THEN [throws |-> FALSE,
             tsCode |-> <<Decl(n, "type", n \o "_" \o "Success", FALSE),
                          Decl(n, "interface", n \o "_" \o PrimaryId(n), TRUE),
                          Decl(n, "interface", n \o "_" \o "ChartConfig", FALSE)>>]
       ELSE IF entry.output = "list"
       THEN [throws |-> FALSE,
             tsCode |-> <<Decl(n, "type", n \o "_" \o PrimaryId(n), TRUE),
                          Decl(n, "interface", n \o "_" \o "Row", FALSE)>>]
       ELSE IF entry.output = "primitive"
       THEN [throws |-> FALSE,
             tsCode |-> <<Decl(n, "type", n \o "_" \o PrimaryId(n), TRUE)>>]
       ELSE [throws |-> TRUE, tsCode |-> <<>>]

\* compile(toolData.output, toolName, ...): the declarations of tsCode, in
\* the order json-schema-to-typescript emits them: the type aliases, then
\* the interfaces, the one of the schema itself first.  A titled property
\* or nested object is declared under its own name.
compile(entry) ==
    LET n == entry.name
    IN IF entry.output = "object"
       THEN [throws |-> FALSE,
             tsCode |-> <<Decl(n, "type", "Success", FALSE),
                          Decl(n, "interface", PrimaryId(n), TRUE)>>]
       ELSE IF entry.output = "nested"
       THEN [throws |-> FALSE,
             tsCode |-> <<Decl(n, "type", "Success", FALSE),
                          Decl(n, "interface", PrimaryId(n), TRUE),
                          Decl(n, "interface", "ChartConfig", FALSE)>>]
       ELSE IF entry.output = "list"
       THEN [throws |-> FALSE,
             tsCode |-> <<Decl(n, "type", PrimaryId(n), TRUE),
                          Decl(n, "interface", "Row", FALSE)>>]
       ELSE IF entry.output = "primitive"
       THEN [throws |-> FALSE,
             tsCode |-> <<Decl(n, "type", PrimaryId(n), TRUE)>>]
       ELSE [throws |-> TRUE, tsCode |-> <<>>]

\* tsCode.match(/export interface (\w+)/): the first interface, if any
RECURSIVE typeMatch(_, _)
typeMatch(tsCode, i) ==
    IF i > Len(tsCode) THEN [found |-> FALSE, name |-> "none"]
    ELSE IF tsCode[i].decl = "interface"
    THEN [found |-> TRUE, name |-> tsCode[i].id]
    ELSE typeMatch(tsCode, i + 1)

\* obj[key] = value on an object kept in insertion order
RECURSIVE Put(_, _, _)
Put(obj, key, value) ==
    IF obj = <<>> THEN <<[tool |-> key, type |-> value]>>
    ELSE IF Head(obj).tool = key
    THEN <<[tool |-> key, type |-> value]>> \o Tail(obj)
    ELSE <<Head(obj)>> \o Put(Tail(obj), key, value)

InitGenVars ==
    /\ dirExists = dir0
    /\ file = file0
    /\ typeDefinitions = <<>>
    /\ toolOutputTypes = <<>>
    /\ ti = 1
    /\ compiled = {}
    /\ written = FALSE
    /\ failure = "none"
    /\ exitCode = -1
    /\ pcGen = "fetch"
    /\ genLog = <<>>
    /\ run = 1
    /\ firstArtifact = NoFile

\* A console line: console.log writes to stdout, console.error to stderr.
\* tool is the tool name that the line contains, if any.
Line(stream, text, tool) == [stream |-> stream, text |-> text, tool |-> tool]

\* The lines an action writes: its console.log lines, then the line of the
\* catch if it ended there.  error.message is the message of what was
\* thrown; none of them contains a tool name.
Console(lines) ==
    genLog' = genLog \o lines \o
        (IF pcGen' = "exited"
         THEN <<Line("stderr", "Failed to generate types:", "none")>>
         ELSE <<>>)

\* Mutant: the error is logged and the process ends normally
Fail_NoExit(reason) ==
    /\ failure' = reason
    /\ exitCode' = 0
    /\ pcGen' = "exited"

\* catch (error): console.error, process.exit(1)
Fail(reason) ==
    /\ failure' = reason
    /\ exitCode' = 1
    /\ pcGen' = "exited"

\* Mutant: the output directory is ensured before the request
Fetch_MkdirFirst ==
    /\ pcGen = "fetch"
    /\ dirExists' = (dirExists \/ canMkdir)
    /\ IF response.fetch = "error" THEN Fail("fetch")
       ELSE IF response.fetch = "not-ok" THEN Fail("status")
       ELSE /\ pcGen' = "json"
            /\ UNCHANGED <<failure, exitCode>>
    /\ UNCHANGED <<response, tools, canMkdir, canWrite, file,
                   file0, dir0, typeDefinitions, toolOutputTypes, ti,
                   compiled, written>>
    /\ Console(<<Line("stdout", "Fetching tool schemas from backend...", "none")>>)
    /\ UNCHANGED <<partVars, chatVars, utilVars, rerunVars>>

\* await fetch(...) and the check of response.ok
Fetch ==
    /\ pcGen = "fetch"
    /\ IF response.fetch = "error" THEN Fail("fetch")
       ELSE IF response.fetch = "not-ok" THEN Fail("status")
       ELSE /\ pcGen' = "json"
            /\ UNCHANGED <<failure, exitCode>>
    /\ UNCHANGED <<response, tools, dirExists, canMkdir, canWrite, file,
                   file0, dir0, typeDefinitions, toolOutputTypes, ti,
                   compiled, written>>
    /\ Console(<<Line("stdout", "Fetching tool schemas from backend...", "none")>>)
    /\ UNCHANGED <<partVars, chatVars, utilVars, rerunVars>>

\* Mutant: Object.entries(data.tools) without the || {}
ParseAndPrepare_ToolsRequired ==
    /\ pcGen = "json"
    /\ IF response.body = "invalid-json" THEN
            Fail("json") /\ UNCHANGED dirExists
       ELSE IF response.body \in {"null", "no-tools-key"} THEN
            Fail("json") /\ UNCHANGED dirExists
       ELSE IF ~dirExists /\ ~canMkdir THEN
            Fail("mkdir") /\ UNCHANGED dirExists
       ELSE /\ dirExists' = TRUE
            /\ pcGen' = "loop"
            /\ UNCHANGED <<failure, exitCode>>
    /\ typeDefinitions' = <<>>
    /\ toolOutputTypes' = <<>>
    /\ ti' = 1
    /\ UNCHANGED <<response, tools, canMkdir, canWrite, file, file0, dir0,
                   compiled, written>>
    /\ Console(<<>>)
    /\ UNCHANGED <<partVars, chatVars, utilVars, rerunVars>>

\* await response.json(), data.tools || {}, the output directory, and the
\* start of typeDefinitions and toolOutputTypes
ParseAndPrepare ==
    /\ pcGen = "json"
    /\ IF response.body = "invalid-json" THEN
            Fail("json") /\ UNCHANGED dirExists
       ELSE IF response.body = "null" THEN   \* data.tools of null
            Fail("json") /\ UNCHANGED dirExists
       ELSE IF ~dirExists /\ ~canMkdir THEN
            Fail("mkdir") /\ UNCHANGED dirExists
       ELSE /\ dirExists' = TRUE
            /\ pcGen' = "loop"
            /\ UNCHANGED <<failure, exitCode>>
    /\ typeDefinitions' = <<>>
    /\ toolOutputTypes' = <<>>
    /\ ti' = 1
    /\ UNCHANGED <<response, tools, canMkdir, canWrite, file, file0, dir0,
                   compiled, written>>
    /\ Console(<<>>)
    /\ UNCHANGED <<partVars, chatVars, utilVars, rerunVars>>

\* Mutant: each tool's declarations are written as soon as they compile
CompileTool_WritesEachTool ==
    /\ pcGen = "loop"
    /\ ti <= Len(tools)
    /\ LET toolData == tools[ti]
       IN IF toolData.output = "absent"
          THEN /\ ti' = ti + 1
               /\ UNCHANGED <<typeDefinitions, toolOutputTypes, compiled,
                              failure, exitCode, pcGen, file>>
          ELSE LET c == compile(toolData)
                   m == typeMatch(c.tsCode, 1)
               IN IF c.throws
                  THEN /\ Fail("compile")
                       /\ UNCHANGED <<typeDefinitions, toolOutputTypes,
                                      compiled, ti, file>>
                  ELSE /\ typeDefinitions' = typeDefinitions \o c.tsCode
                       /\ toolOutputTypes' =
                            IF m.found
                            THEN Put(toolOutputTypes, toolData.name, m.name)
                            ELSE toolOutputTypes
                       /\ file' = [exists |-> TRUE,
                                   defs |-> typeDefinitions',
                                   map |-> toolOutputTypes']
                       /\ compiled' = compiled \cup {toolData.name}
                       /\ ti' = ti + 1
                       /\ UNCHANGED <<failure, exitCode, pcGen>>
    /\ UNCHANGED <<response, tools, dirExists, canMkdir, canWrite,
                   file0, dir0, written>>
    /\ Console(IF tools[ti].output = "absent" THEN <<>>
               ELSE <<Line("stdout", "Generating types for", tools[ti].name)>>)
    /\ UNCHANGED <<partVars, chatVars, utilVars, rerunVars>>

\* One iteration of the loop over Object.entries(tools)
CompileTool ==
    /\ pcGen = "loop"
    /\ ti <= Len(tools)
    /\ LET toolData == tools[ti]
       IN IF toolData.output = "absent"
          THEN /\ ti' = ti + 1
               /\ UNCHANGED <<typeDefinitions, toolOutputTypes, compiled,
                              failure, exitCode, pcGen>>
          ELSE LET c == compile(toolData)
                   m == typeMatch(c.tsCode, 1)
               IN IF c.throws
                  THEN /\ Fail("compile")
                       /\ UNCHANGED <<typeDefinitions, toolOutputTypes,
                                      compiled, ti>>
                  ELSE /\ typeDefinitions' = typeDefinitions \o c.tsCode
                       /\ toolOutputTypes' =
                            IF m.found
                            THEN Put(toolOutputTypes, toolData.name, m.name)
                            ELSE toolOutputTypes
                       /\ compiled' = compiled \cup {toolData.name}
                       /\ ti' = ti + 1
                       /\ UNCHANGED <<failure, exitCode, pcGen>>
    /\ UNCHANGED <<response, tools, dirExists, canMkdir, canWrite, file,
                   file0, dir0, written>>
    /\ Console(IF tools[ti].output = "absent" THEN <<>>
               ELSE <<Line("stdout", "Generating types for", tools[ti].name)>>)
    /\ UNCHANGED <<partVars, chatVars, utilVars, rerunVars>>

\* Mutant: the artifact starts with a line that tells when it was made
Emit_Stamped ==
    /\ pcGen = "loop"
    /\ ti > Len(tools)
    /\ IF canWrite
       THEN /\ file' = [exists |-> TRUE,
                        defs |-> <<Decl("none", "comment",
                                        IF run = 1 THEN "generated at t1"
                                        ELSE "generated at t2", FALSE)>>
                                 \o typeDefinitions,
                        map |-> toolOutputTypes]
            /\ written' = TRUE
            /\ exitCode' = 0
            /\ pcGen' = "done"
            /\ UNCHANGED failure
       ELSE /\ Fail("write")
            /\ UNCHANGED <<file, written>>
    /\ UNCHANGED <<response, tools, dirExists, canMkdir, canWrite, file0,
                   dir0, typeDefinitions, toolOutputTypes, ti, compiled>>
    /\ Console(IF canWrite
               THEN <<Line("stdout", "Types generated successfully", "none")>>
               ELSE <<>>)
    /\ UNCHANGED <<partVars, chatVars, utilVars, rerunVars>>

\* After the loop: the mapping is appended and the file written at once
Emit ==
    /\ pcGen = "loop"
    /\ ti > Len(tools)
    /\ IF canWrite
       THEN /\ file' = [exists |-> TRUE, defs |-> typeDefinitions,
                        map |-> toolOutputTypes]
            /\ written' = TRUE
            /\ exitCode' = 0
            /\ pcGen' = "done"
            /\ UNCHANGED failure
       ELSE /\ Fail("write")
            /\ UNCHANGED <<file, written>>
    /\ UNCHANGED <<response, tools, dirExists, canMkdir, canWrite, file0,
                   dir0, typeDefinitions, toolOutputTypes, ti, compiled>>
    /\ Console(IF canWrite
               THEN <<Line("stdout", "Types generated successfully", "none")>>
               ELSE <<>>)
    /\ UNCHANGED <<partVars, chatVars, utilVars, rerunVars>>

NextGen == Fetch \/ ParseAndPrepare \/ CompileTool \/ Emit

\* The script is run again against the same response
Rerun ==
    /\ pcGen = "done"
    /\ run = 1
    /\ run' = run + 1
    /\ firstArtifact' = file
    /\ file0' = file
    /\ dir0' = dirExists
    /\ typeDefinitions' = <<>>
    /\ toolOutputTypes' = <<>>
    /\ ti' = 1
    /\ compiled' = {}
    /\ written' = FALSE
    /\ failure' = "none"
    /\ exitCode' = -1
    /\ pcGen' = "fetch"
    /\ genLog' = <<>>
    /\ UNCHANGED <<response, tools, dirExists, canMkdir, canWrite, file>>
    /\ UNCHANGED <<partVars, chatVars, utilVars>>

NextRerun == Fetch \/ ParseAndPrepare \/ CompileTool \/ Emit \/ Rerun

----------------------------------------------------------------------------
\* A second call of renderToolPart on the same part


CallAgain ==
    /\ pcPart \in {"returned", "threw"}
    /\ callResult2 = NoResult
    /\ LET r == renderToolPart(part)
       IN /\ callResult2' = r
          /\ log' = log \o Warnings(r)
    /\ UNCHANGED <<part, callResult, view, table, pcPart>>
    /\ UNCHANGED <<utilName, got, narrowed>>
    /\ UNCHANGED <<chatVars, genVars>>

NextTwice == CallRenderToolPart \/ CallAgain

----------------------------------------------------------------------------
\* tool-utils.ts

NotCalled == [called |-> FALSE, value |-> Null]

\* `tool-${toolName}`
ToolType(toolName) == StrType(TOOL_PREFIX \o toolName)

\* getToolOutput(part, toolName): the output, or null
getToolOutput(p, toolName) ==
    IF /\ p.t = "object"
       /\ p.type = ToolType(toolName)
       /\ Truthy(p.output)
    THEN p.output
    ELSE Null

\* isToolPart(part, toolName)
isToolPart(p, toolName) ==
    /\ p.t = "object"
    /\ p.type = ToolType(toolName)

CallGetToolOutput ==
    /\ ~got.called
    /\ got' = [called |-> TRUE, value |-> getToolOutput(part, utilName)]
    /\ UNCHANGED <<callResult2, utilName, narrowed>>
    /\ UNCHANGED <<partVars, chatVars, genVars>>

CallIsToolPart ==
    /\ ~narrowed.called
    /\ narrowed' = [called |-> TRUE, value |-> isToolPart(part, utilName)]
    /\ UNCHANGED <<callResult2, utilName, got>>
    /\ UNCHANGED <<partVars, chatVars, genVars>>

NextUtil == CallRenderToolPart \/ CallGetToolOutput \/ CallIsToolPart

----------------------------------------------------------------------------
\* Specifications

\* The variables of the machines a specification leaves alone
IdlePart == part = [t |-> "undefined", type |-> NoType, output |-> Undefined]
                /\ InitPartVars
IdleChat == messages = <<>> /\ InitChatVars
IdleGen ==
    /\ response = [fetch |-> "error", body |-> "none"]
    /\ tools = <<>>
    /\ canMkdir = TRUE
    /\ canWrite = TRUE
    /\ file0 = NoFile
    /\ dir0 = FALSE
    /\ InitGenVars
IdleUtil ==
    /\ callResult2 = NoResult
    /\ utilName = GET_WEATHER
    /\ got = NotCalled
    /\ narrowed = [called |-> FALSE, value |-> FALSE]

\* renderToolPart on any part
InitPart ==
    part \in Parts /\ InitPartVars /\ IdleChat /\ IdleGen /\ IdleUtil

\* renderToolPart called twice on any part
SpecTwice == InitPart /\ [][NextTwice]_vars

\* renderToolPart, getToolOutput and isToolPart on any part, for any key of
\* ToolOutputTypes as toolName
InitUtil ==
    /\ part \in Parts
    /\ InitPartVars
    /\ IdleChat
    /\ IdleGen
    /\ callResult2 = NoResult
    /\ utilName \in {GET_WEATHER, EXECUTE_SQL, RENDER_CHART}
    /\ got = NotCalled
    /\ narrowed = [called |-> FALSE, value |-> FALSE]
SpecUtil == InitUtil /\ [][NextUtil]_vars
SpecPart == InitPart /\ [][NextPart]_vars

\* Chat rendering a conversation
InitChat ==
    /\ messages \in UNION {Conversations(m, MaxParts) : m \in 0..MaxMessages}
    /\ InitChatVars
    /\ IdlePart
    /\ IdleGen
    /\ IdleUtil
SpecChat == InitChat /\ [][NextChat]_vars

\* The form of Chat under change, submit and status events
InitForm == IdleChat /\ IdlePart /\ IdleGen /\ IdleUtil
SpecForm == InitForm /\ [][NextForm]_vars

\* A generation run
InitGen ==
    /\ response \in Responses
    /\ tools \in ToolLists
    /\ (response.body # "tools" => tools = <<>>)
    /\ canMkdir \in BOOLEAN
    /\ canWrite \in BOOLEAN
    /\ dir0 \in BOOLEAN
    /\ file0 \in {NoFile, OldFile}
    /\ (file0.exists => dir0)
    /\ InitGenVars
    /\ IdlePart
    /\ IdleChat
    /\ IdleUtil
SpecGen == InitGen /\ [][NextGen]_vars

\* A generation run and a second one against the same response
SpecRerun == InitGen /\ [][NextRerun]_vars

----------------------------------------------------------------------------
\* Properties of renderToolPart and the renderers (SpecPart)

\* The keys declared in the renderer table
DeclaredKeys == {GET_WEATHER, EXECUTE_SQL, RENDER_CHART}

\* A value that is a non-null object
NonNullObjects == Objects \cup {Arr(0)}

Called == pcPart # "idle"

\* The name that follows 'tool-' in the type of the part
NameOfPart == SubSeq(part.type.s, 6, Len(part.type.s))

IsToolPartOf(names) ==
    /\ part.t = "object"
    /\ part.type.t = "string"
    /\ part.type.s \in {TOOL_PREFIX \o n : n \in names}

\* C1: a 'tool-<name>' part whose name is not a declared key of the renderer
\* table and whose output is a non-null object renders nothing: the call
\* returns null, warns 'No renderer found', calls no function and does not
\* throw -- for every name, the inherited property names included.
C1_UndeclaredNameNotFound ==
    (Called /\ IsToolPartOf(ToolNames \ DeclaredKeys)
            /\ part.output \in NonNullObjects)
    => /\ pcPart # "threw"
       /\ callResult.ret = "null"
       /\ callResult.called = "none"
       /\ log = <<[msg |-> "NoRenderer", toolName |-> NameOfPart]>>

\* C2: a part of a declared tool whose output is missing, null or a
\* primitive renders nothing: the call returns null, warns 'Invalid output'
\* and calls no renderer.
C2_InvalidOutputRejected ==
    (Called /\ IsToolPartOf(DeclaredKeys) /\ part.output \in Primitives)
    => /\ callResult.ret = "null"
       /\ callResult.called = "none"
       /\ callResult.child = NoChild
       /\ log = <<[msg |-> "InvalidOutput", toolName |-> NameOfPart]>>
       /\ pcPart = "returned"

\* Scenario E: { type: 'tool-get_weather', output: 'not an object' }
C2_Witness ==
    /\ pcPart = "returned"
    /\ part.t = "object"
    /\ part.type = StrType(TOOL_PREFIX \o GET_WEATHER)
    /\ part.output = StrVal
    /\ callResult.ret = "null"

\* C3: a value that is no object, or an object whose type is missing, no
\* string, or a string that does not start with 'tool-', makes the call
\* return null without a throw and without a call of a renderer.
C3_NotAToolPartRejected ==
    (Called /\ (\/ part.t # "object"
                \/ part.type.t # "string"
                \/ part.type.s \in OtherTypeStrings))
    => /\ pcPart = "returned"
       /\ callResult.ret = "null"
       /\ callResult.called = "none"
       /\ callResult.child = NoChild

\* Scenario D: { type: 'text', text: 'hello' }
C3_Witness ==
    /\ pcPart = "returned"
    /\ part.t = "object"
    /\ part.type = StrType(TEXT)
    /\ callResult.ret = "null"

\* The component that the renderer declared under a key instantiates
DeclaredRenderer(n) ==
    IF n = GET_WEATHER THEN "WeatherResult"
    ELSE IF n = EXECUTE_SQL THEN "SQLQueryResult"
    ELSE "ChartResult"

\* C4: for a part of a declared tool with a non-null object as output, the
\* name dispatched on is the type without its first five characters, the
\* renderer called is the one declared under that name, and both the
\* renderer and the wrapper get the output object of the part itself.
C4_DispatchByStrippedName ==
    \A n \in DeclaredKeys :
        (Called /\ IsToolPartOf({n}) /\ part.output \in NonNullObjects)
        => /\ callResult.ret = "element"
           /\ callResult.toolName = n
           /\ callResult.called = DeclaredRenderer(n)
           /\ callResult.child =
                [kind |-> "component", comp |-> DeclaredRenderer(n),
                 data |-> part.output]
           /\ callResult.toolOutput = part.output

\* Scenario B: { type: 'tool-get_weather', output: { city, temperature } }
C4_Witness ==
    /\ pcPart = "rendered"
    /\ part.type = StrType(TOOL_PREFIX \o GET_WEATHER)
    /\ part.output = Obj(2)
    /\ callResult.called = "WeatherResult"
    /\ view = View("weather")

\* C5: a renderer that is given a non-null object shows a panel of its own
\* and does not throw, also when success is true and fields that the
\* success view reads are absent.
C5_RenderersNeverThrow ==
    (pcPart \in {"rendered", "crashed"}
     /\ callResult.child.kind = "component")
    => ~view.throws

----------------------------------------------------------------------------
\* Properties of the message list (SpecChat)

\* C6: what is shown for a part depends on that part alone: whatever the
\* other parts are, every text part of every message is shown at its
\* position once the pass is over.
C6_PartsRenderedIndependently ==
    pcChat \in {"committed", "crashed"}
    => \A m \in DOMAIN messages : \A i \in DOMAIN messages[m] :
          messages[m][i].type = StrType(TEXT)
          => /\ m \in DOMAIN dom
             /\ i \in DOMAIN dom[m]
             /\ dom[m][i] = View("message-text")

----------------------------------------------------------------------------
\* Properties of the generation run (SpecGen)

HasOutput(entry) == entry.output # "absent"

\* The names of the tools of the response that carry an output schema
ToolsWithOutput == {tools[i].name : i \in {j \in DOMAIN tools : HasOutput(tools[j])}}

\* The names of the tools of the response with an output schema, in order
OutputNamesInOrder ==
    LET F[i \in 0..Len(tools)] ==
            IF i = 0 THEN <<>>
            ELSE IF HasOutput(tools[i]) THEN F[i - 1] \o <<tools[i].name>>
            ELSE F[i - 1]
    IN F[Len(tools)]

\* C7: after a successful run the keys of the emitted ToolOutputTypes are
\* exactly the names of the tools that carry an output schema.
C7_RegistryKeysAreToolsWithOutput ==
    (pcGen = "done" /\ exitCode = 0)
    => {file.map[i].tool : i \in DOMAIN file.map} = ToolsWithOutput

\* The tools whose schema is declared in an artifact, in order
DeclaredTools(defs) ==
    LET IsPrimary(d) == d.primary
        prim == SelectSeq(defs, IsPrimary)
    IN [i \in DOMAIN prim |-> prim[i].tool]

\* C8: the artifact holds its content from before the run or the new
\* content with the declarations of every tool with an output schema, in
\* order; a failed compile leaves the file as it was.
C8_ArtifactAllOrNothing ==
    /\ \/ file = file0
       \/ /\ file.exists
          /\ DeclaredTools(file.defs) = OutputNamesInOrder
    /\ (failure = "compile" => file = file0)

\* A compile fails after an earlier tool compiled
C8_Witness ==
    /\ failure = "compile"
    /\ pcGen = "exited"
    /\ ti > 1
    /\ compiled # {}
    /\ typeDefinitions # <<>>
    /\ file = file0

\* C9: when the request fails or its status is not ok, the run ends with
\* exit status 1 and neither the file nor its directory ever changes.
C9_SourceUnreachableChangesNothing ==
    response.fetch # "ok"
    => /\ file = file0
       /\ dirExists = dir0
       /\ (pcGen # "fetch" =>
              /\ pcGen = "exited"
              /\ exitCode = 1
              /\ failure = (IF response.fetch = "error" THEN "fetch" ELSE "status"))

\* The status is not ok and the output directory does not exist
C9_Witness ==
    /\ response.fetch = "not-ok"
    /\ pcGen = "exited"
    /\ exitCode = 1
    /\ ~dir0
    /\ canMkdir

AllCompiled == \A i \in DOMAIN tools : HasOutput(tools[i]) => tools[i].name \in compiled

\* C10: a run that is over has exit status zero exactly when the status was
\* ok, every tool with an output schema compiled and the file was written;
\* a run in which something failed has a non-zero exit status.
C10_ExitStatus ==
    /\ (pcGen \in {"done", "exited"}
        => /\ (exitCode = 0 <=> (response.fetch = "ok" /\ AllCompiled /\ written))
           /\ exitCode \in {0, 1}
           /\ (failure # "none" => exitCode = 1))
    /\ (pcGen \notin {"done", "exited"} => exitCode = -1 /\ failure = "none")

\* A run over two tools with output schemas ends with status zero
C10_Witness ==
    /\ pcGen = "done"
    /\ exitCode = 0
    /\ written
    /\ Cardinality(compiled) >= 2


\* The keys of the mapping of an artifact, in order
MapTools(map) == [i \in DOMAIN map |-> map[i].tool]

\* C11: a second run against the same response writes the same artifact as
\* the first, and the declarations and the entries of ToolOutputTypes both
\* follow the order of the tool names in the response.
C11_RerunWritesSameArtifact ==
    /\ (run = 2 /\ pcGen = "done") => file = firstArtifact
    /\ (pcGen = "done" =>
          LET InMap(n) == \E i \in DOMAIN file.map : file.map[i].tool = n
          IN /\ DeclaredTools(file.defs) = OutputNamesInOrder
             /\ MapTools(file.map) = SelectSeq(OutputNamesInOrder, InMap))

\* Both runs wrote an artifact of two tools
C11_Witness ==
    /\ run = 2
    /\ pcGen = "done"
    /\ firstArtifact.exists
    /\ Len(file.map) >= 2
    /\ file = firstArtifact

\* C12: every entry of the emitted ToolOutputTypes names the declaration of
\* that tool's output schema itself, not one of something nested in it and
\* not one of another tool.
C12_EntriesArePrimaryTypes ==
    pcGen = "done"
    => \A i \in DOMAIN file.map :
          \E j \in DOMAIN file.defs :
              /\ file.defs[j].id = file.map[i].type
              /\ file.defs[j].tool = file.map[i].tool
              /\ file.defs[j].primary

\* The key of the renderer table as the generator writes it
KeyString(k) ==
    IF k = GET_WEATHER THEN "get_weather"
    ELSE IF k = EXECUTE_SQL THEN "execute_sql"
    ELSE "render_chart"

\* C13: with the artifact that is checked in, every tool name that has a
\* renderer in toolRenderers is a key of ToolOutputTypes.
C13_RendererKeysInRegistry ==
    file = OldFile
    => \A k \in DOMAIN toolRenderers :
          \E i \in DOMAIN file.map : file.map[i].tool = KeyString(k)

\* C16: when a compile fails, the line that reports the failure names the
\* tool whose schema did not compile.
C16_FailureNamesTool ==
    failure = "compile"
    => /\ genLog # <<>>
       /\ genLog[Len(genLog)].stream = "stderr"
       /\ genLog[Len(genLog)].tool = tools[ti].name

\* Schemas that declare the property success under its own name
DeclaresSuccess(entry) == entry.output \in {"object", "nested"}

SecondCallMade == callResult2 # NoResult

\* A part that names a tool and that the call answers with null
RejectedToolPart ==
    /\ part.t = "object"
    /\ part.type.t = "string"
    /\ StartsWith(part.type.s, TOOL_PREFIX)
    /\ callResult.ret = "null"

\* C14, as stated: two calls on the same part yield the same outcome and
\* leave nothing behind that can be observed.
C14_NoObservableSideEffect ==
    SecondCallMade
    => /\ callResult2.ret = callResult.ret
       /\ callResult2.called = callResult.called
       /\ callResult2.toolOutput = callResult.toolOutput
       /\ log = <<>>

\* C14, amended: two calls on the same part yield the same outcome, and the
\* only thing a call leaves behind is one console.warn line when it rejects
\* a 'tool-<name>' part -- one line for each call, the second the same as
\* the first, whatever was logged before.
C14_OnlyEffectIsOneWarningPerRejection ==
    SecondCallMade
    => /\ callResult2.ret = callResult.ret
       /\ callResult2.called = callResult.called
       /\ callResult2.toolOutput = callResult.toolOutput
       /\ Len(log) = IF RejectedToolPart THEN 2 ELSE 0
       /\ RejectedToolPart => log[2] = log[1]

\* A declared tool without output, called twice
C14_Witness ==
    /\ SecondCallMade
    /\ IsToolPartOf({EXECUTE_SQL})
    /\ part.output = Undefined
    /\ callResult2.ret = "null"
    /\ Len(log) = 2

\* Properties of rejection (SpecPart)

\* C15: a part that is not an object, or has no string type, or names a tool
\* and has an output that is missing or not an object, is answered with null
\* and a line is logged for it.
C15_RejectedPartsAreLogged ==
    (/\ Called
     /\ \/ part.t # "object"
        \/ part.type.t # "string"
        \/ /\ StartsWith(part.type.s, TOOL_PREFIX)
           /\ part.output \notin NonNullObjects)
    => /\ callResult.ret = "null"
       /\ log # <<>>

\* C18: a part of a declared tool whose output is an array is answered with
\* null and no renderer is called; a renderer is only ever called with an
\* object that is neither null nor an array.
C18_ArrayOutputRejected ==
    /\ (Called /\ IsToolPartOf(DeclaredKeys) /\ part.output = Arr(0))
       => /\ callResult.ret = "null"
          /\ callResult.called = "none"
    /\ (Called /\ IsToolPartOf(DeclaredKeys) /\ callResult.called # "none")
       => callResult.toolOutput \in Objects

\* Properties of the helpers of tool-utils.ts (SpecUtil)

\* C19: when isToolPart(part, name) is true, the part is an object, its type
\* is 'tool-' followed by name, and its output is a non-null object.
C19_NarrowingHolds ==
    (narrowed.called /\ narrowed.value)
    => /\ part.t = "object"
       /\ part.type = ToolType(utilName)
       /\ part.output \in NonNullObjects

\* renderToolPart(part) called the renderer declared for the tool
DispatchedTo(n) ==
    /\ callResult.ret = "element"
    /\ callResult.toolName = n
    /\ callResult.called = DeclaredRenderer(n)

\* C20: for a declared tool name, getToolOutput(part, name) is not null
\* exactly when renderToolPart(part) calls the renderer of that tool, the
\* value is the output that the renderer gets, and it is null when the
\* output is a string, a number or a boolean.
C20_SameAcceptance ==
    (got.called /\ Called)
    => /\ (got.value # Null) <=> DispatchedTo(utilName)
       /\ (got.value # Null) => got.value = callResult.toolOutput
       /\ (part.t = "object"
           /\ part.output.t \in {"string", "number", "boolean"})
          => got.value = Null


\* Properties of the views of the renderers (SpecPart)

\* The panel a renderer shows for an output that did not succeed
ErrorPanel(n) == IF n = EXECUTE_SQL THEN "sql-error" ELSE "chart-error"

\* C21: for an execute_sql or render_chart part whose output has success
\* false or absent, the renderer is called and what React shows is the
\* error panel of that renderer, whatever rows, row_count, column_names and
\* config are; nothing throws.
C21_FailedOutputShowsErrorPanel ==
    \A n \in {EXECUTE_SQL, RENDER_CHART} :
        (/\ Called
         /\ IsToolPartOf({n})
         /\ part.output \in NonNullObjects
         /\ NotSuccess(Fields(part.output)))
        => /\ pcPart \in {"returned", "rendered"}
           /\ callResult.ret = "element"
           /\ callResult.called = DeclaredRenderer(n)
           /\ pcPart = "rendered" => view = View(ErrorPanel(n))

\* A failed query that still has rows, row_count and column_names
C21_Witness ==
    /\ pcPart = "rendered"
    /\ IsToolPartOf({EXECUTE_SQL})
    /\ part.output = Obj(17)
    /\ view = View("sql-error")


\* The success view of an SQL result is on screen
SqlSuccessView ==
    /\ pcPart = "rendered"
    /\ callResult.called = "SQLQueryResult"
    /\ view.shown \in {"sql-table", "sql-no-results"}

\* C23: in the success view of an SQL result the count in the header is the
\* number of body rows, 'No results returned' is shown exactly when the
\* output has no row to render, and every body row has one cell for each
\* entry of column_names, in order, with an em dash for a missing or null value.
C23_HeaderCountIsBodyRows ==
    SqlSuccessView
    => LET d == Fields(part.output)
       IN /\ table.header = Len(table.body)
          /\ table.noResults <=> Len(d.rows) = 0
          /\ \A i \in DOMAIN table.body :
                /\ Len(table.body[i]) = Len(d.column_names)
                /\ \A j \in DOMAIN d.column_names :
                      /\ table.body[i][j] =
                           formatValue(RowValue(d.rows[i], d.column_names[j]))
                      /\ RowValue(d.rows[i], d.column_names[j])
                            \in {Null, Undefined}
                         => table.body[i][j] = EM_DASH


\* Properties of a response without output schemas (SpecGen)

\* The response is ok and holds no output schema: it has no tools key, or
\* no tool of it has an output
NoOutputSchemas ==
    /\ response.fetch = "ok"
    /\ response.body \in {"no-tools-key", "tools"}
    /\ \A i \in DOMAIN tools : tools[i].output = "absent"

\* An artifact with no type definition and an empty ToolOutputTypes
EmptyArtifact == [exists |-> TRUE, defs |-> <<>>, map |-> <<>>]

\* C24: a run on such a response does not fail on the response; where the
\* directory and the file can be written it ends with status zero and the
\* file, whatever it was before, is the artifact without a type definition
\* and with an empty ToolOutputTypes.
C24_NoOutputSchemasWritesEmptyArtifact ==
    (NoOutputSchemas /\ pcGen \in {"done", "exited"})
    => /\ failure \in {"none", "mkdir", "write"}
       /\ (canWrite /\ (dir0 \/ canMkdir))
          => /\ pcGen = "done"
             /\ exitCode = 0
             /\ written
             /\ file = EmptyArtifact

\* A response without a tools key replaces the artifact of an earlier run
C24_Witness ==
    /\ pcGen = "done"
    /\ response.body = "no-tools-key"
    /\ file0 = OldFile
    /\ file = EmptyArtifact
    /\ exitCode = 0


\* Properties of the form (SpecForm)

\* The step is a submit that handleSubmit lets through
Accepted == status = "ready" /\ Trim(input) # <<>>

\* C22: sendMessage is called only in a submit with status 'ready' and an
\* input that has a character other than white space; such a submit sends
\* the input once and empties it; any other submit calls nothing and leaves
\* the input as it is.  So no step sends while the status is 'submitted' or
\* 'streaming'.
C22_SendOnlyWhenReadyAndNotBlank ==
    [][/\ (sendCalls' # sendCalls \/ lastSent' # lastSent)
          => /\ event' = "submit"
             /\ Accepted
             /\ sendCalls' = sendCalls + 1
             /\ lastSent' = input
             /\ input' = <<>>
       /\ (event' = "submit" /\ ~Accepted)
          => UNCHANGED <<input, status, sendCalls, lastSent>>
       /\ status \in {"submitted", "streaming"}
          => UNCHANGED <<sendCalls, lastSent>>]_vars

\* A second message, sent after the response to the first had ended
C22_Witness ==
    /\ sendCalls = 2
    /\ lastSent = <<"a", " ">>
    /\ event = "submit"
    /\ status = "submitted"
    /\ input = <<>>

====
